---- MODULE Spec2Model ----
(***************************************************************************)
(* Model of the OV2640 ArduCam driver (src/src/lib.rs, src/src/config.rs,  *)
(* src/src/error.rs).                                                      *)
(*                                                                         *)
(* The driver owns a Configuration snapshot and two optional bus handles   *)
(* (I2C for register programming, SPI for the frame buffer).  Every public *)
(* method is one action; what a method does on the buses is recorded as a  *)
(* trace of bus events so that ordering and abort behaviour can be stated. *)
(***************************************************************************)
EXTENDS Integers, Sequences, FiniteSets, TLC

VARIABLES
    configuration,  \* OV2640.configuration
    i2c,            \* OV2640.i2c is Some(_)
    spi,            \* OV2640.spi is Some(_)
    op,             \* the method called last ("new" right after construction)
    arg,            \* its argument: a setting value, a Configuration, a buffer length, or None
    pre,            \* the Configuration the device held when the method was entered
    result,         \* Ok or the OV2640Error variant the method returned
    ret,            \* <<v>> if the method returned Ok(v) or Some(v), <<>> otherwise
    trace,          \* the bus and delay events of the call, in program order
    buffer,         \* the caller's buffer after the call: [len, content]
    env,            \* what the transports did during the call: [fi2c, fspi, rx]
    initialized,    \* history: some init() on this device has returned Ok
    builder         \* the caller's ConfigurationBuilder

vars ==
    <<configuration, i2c, spi, op, arg, pre, result, ret, trace, buffer, env,
      initialized, builder>>

----------------------------------------------------------------------------
(* Bounds of the model *)

\* number of entries of every bulk register table (the tables of register.rs
\* are several hundred entries long; their length does not influence control flow)
TableLen == 2

----------------------------------------------------------------------------
(* config.rs *)

ImageFormat == {"JPEG", "QVGA"}

Resolution ==
    {"R160x120", "R176x144", "R320x240", "R352x288", "R640x480",
     "R800x600", "R1024x768", "R1280x1024", "R1600x1200"}

LightMode == {"Auto", "Sunny", "Cloudy", "Office", "Home"}

Saturation ==
    {"Saturation0", "Saturation1", "Saturation2", "Saturation3", "Saturation4"}

Brightness ==
    {"Brightness0", "Brightness1", "Brightness2", "Brightness3", "Brightness4"}

Contrast == {"Contrast0", "Contrast1", "Contrast2", "Contrast3", "Contrast4"}

SpecialEffect ==
    {"Normal", "Antique", "Bluish", "Greenish", "Reddish", "BlackWhite",
     "Negative", "BlackWhiteNegative"}

Configuration ==
    [image_format : ImageFormat, resolution : Resolution,
     light_mode : LightMode, saturation : Saturation,
     brightness : Brightness, contrast : Contrast,
     special_effect : SpecialEffect]

None == "None"

\* ConfigurationBuilder::default(): every field unset
ConfigurationBuilder_default ==
    [image_format |-> None, resolution |-> None, light_mode |-> None,
     saturation |-> None, brightness |-> None, contrast |-> None,
     special_effect |-> None]

\* ConfigurationBuilder::new()
ConfigurationBuilder_new == ConfigurationBuilder_default

\* the seven setters of the builder: self.field = Some(value)
BuilderSet(b, field, value) == [b EXCEPT ![field] = value]

\* build() whose default resolution follows the image format
build_format_dependent(b) ==
    [image_format   |-> IF b.image_format # None THEN b.image_format ELSE "JPEG",
     resolution     |-> IF b.resolution # None THEN b.resolution
                        ELSE IF b.image_format = "QVGA" THEN "R320x240"
                        ELSE "R1024x768",
     light_mode     |-> IF b.light_mode # None THEN b.light_mode ELSE "Auto",
     saturation     |-> IF b.saturation # None THEN b.saturation ELSE "Saturation0",
     brightness     |-> IF b.brightness # None THEN b.brightness ELSE "Brightness0",
     contrast       |-> IF b.contrast # None THEN b.contrast ELSE "Contrast0",
     special_effect |-> IF b.special_effect # None THEN b.special_effect ELSE "Normal"]

\* ConfigurationBuilder::build()
build(b) ==
    [image_format   |-> IF b.image_format # None THEN b.image_format ELSE "JPEG",
     resolution     |-> IF b.resolution # None THEN b.resolution ELSE "R1024x768",
     light_mode     |-> IF b.light_mode # None THEN b.light_mode ELSE "Auto",
     saturation     |-> IF b.saturation # None THEN b.saturation ELSE "Saturation0",
     brightness     |-> IF b.brightness # None THEN b.brightness ELSE "Brightness0",
     contrast       |-> IF b.contrast # None THEN b.contrast ELSE "Contrast0",
     special_effect |-> IF b.special_effect # None THEN b.special_effect ELSE "Normal"]

----------------------------------------------------------------------------
(* error.rs *)

Ok == "Ok"

OV2640Error ==
    {"CannotSetImageSizeOnNonJPEG", "InvalidBufferSize", "NoI2cPeripheral",
     "I2CError", "NoSpiPeripheral", "SpiError"}

----------------------------------------------------------------------------
(* lib.rs: constants *)

MAX_FIFO_SIZE == 393215
I2C_ADDRESS == 96
FIFO_CLEAR_MASK == 0
FIFO_START_MASK == 0
CAPTURE_COMPLETE_MASK == 8
FIFO_BURST == 60

----------------------------------------------------------------------------
(* register.rs: the bulk tables.  Their bytes are opaque here: entry i of  *)
(* table t is the pair of symbolic bytes <<Opaque(t, i, 0), Opaque(t, i, 1)>>, *)
(* all distinct from each other and from every real byte (0..255).         *)

TableNames ==
    <<"JPEG_INIT_REGISTER", "YUV422_REGISTERS", "JPEG_REGISTERS", "QVGA_REGISTERS",
      "JPEG_160x120_REGISTERS", "JPEG_176x144_REGISTERS", "JPEG_320x240_REGISTERS",
      "JPEG_352x288_REGISTERS", "JPEG_640x480_REGISTERS", "JPEG_800x600_REGISTERS",
      "JPEG_1024x768_REGISTERS", "JPEG_1280x1024_REGISTERS",
      "JPEG_1600x1200_REGISTERS">>

TableId(name) == CHOOSE t \in DOMAIN TableNames : TableNames[t] = name

Opaque(t, i, b) == 256 + ((t * TableLen + i) * 2) + b

Table(name) ==
    [i \in 1..TableLen |->
        <<Opaque(TableId(name), i, 0), Opaque(TableId(name), i, 1)>>]

----------------------------------------------------------------------------
(* The frame of one method call: the device fields the method may change,  *)
(* the events it has produced so far, the error it has returned ("Ok"      *)
(* while it is still running) and the behaviour of the two transports      *)
(* during the call: fi2c / fspi is the index of the I2C / SPI transaction  *)
(* that fails (0: none fails), rx the bytes the device sends back on       *)
(* successive single-register reads (rx0: all of them, rx: those not yet   *)
(* read); ni2c / nspi count the transactions made so far.                  *)

Event(ev, data) == [ev |-> ev, data |-> data]

Frame(cfg, hasI2c, hasSpi, fi2c, fspi, rx, buf) ==
    [cfg |-> cfg, i2c |-> hasI2c, spi |-> hasSpi, trace |-> <<>>, err |-> Ok,
     ni2c |-> 0, nspi |-> 0, fi2c |-> fi2c, fspi |-> fspi, rx |-> rx,
     rx0 |-> rx, val |-> 0, ret |-> <<>>, buf |-> buf]

\* Result<_, _>::Err(e) returned from the method
Fail(m, e) == [m EXCEPT !.err = e]

\* `e?` followed by the rest of the method: e is evaluated once; if it left an
\* error the method returns it, otherwise the method goes on with Rest
Try(e, Rest(_)) ==
    CHOOSE r \in {IF x.err # Ok THEN x ELSE Rest(x) : x \in {e}} : TRUE

\* write_register that repeats a failed write once
write_register_retry(m0, register, value) ==
    Try(m0, LAMBDA m :
        IF ~m.i2c THEN Fail(m, "NoI2cPeripheral")
        ELSE LET n == m.ni2c + 1
                 e == Event("i2c_write", <<I2C_ADDRESS, register, value>>)
                 w == [m EXCEPT !.ni2c = n, !.trace = Append(@, e)]
                 w2 == [m EXCEPT !.ni2c = n + 1, !.trace = Append(Append(@, e), e)]
             IN  IF n # m.fi2c THEN w
                 ELSE IF n + 1 = m.fi2c THEN Fail(w2, "I2CError") ELSE w2)

\* write_register that does nothing and reports success when the handle is absent
write_register_absent_ok(m0, register, value) ==
    Try(m0, LAMBDA m :
        IF ~m.i2c THEN m
        ELSE LET n == m.ni2c + 1
                 w == [m EXCEPT !.ni2c = n,
                                !.trace = Append(@, Event("i2c_write",
                                                   <<I2C_ADDRESS, register, value>>))]
             IN  IF n = m.fi2c THEN Fail(w, "I2CError") ELSE w)

\* write_register: one I2C write of [register, value] to I2C_ADDRESS
write_register(m0, register, value) ==
    Try(m0, LAMBDA m :
        IF ~m.i2c THEN Fail(m, "NoI2cPeripheral")
        ELSE LET n == m.ni2c + 1
                 w == [m EXCEPT !.ni2c = n,
                                !.trace = Append(@, Event("i2c_write",
                                                   <<I2C_ADDRESS, register, value>>))]
             IN  IF n = m.fi2c THEN Fail(w, "I2CError") ELSE w)

\* write_registers: the for loop over the table, left at the first error
RECURSIVE write_registers_from(_, _, _)
write_registers_from(m0, registers, k) ==
    Try(m0, LAMBDA m :
        IF k > Len(registers) THEN m
        ELSE write_registers_from(
                 write_register(m, registers[k][1], registers[k][2]),
                 registers, k + 1))

write_registers(m, registers) == write_registers_from(m, registers, 1)

\* delay.delay_ms(ms)
delay_ms(m0, ms) ==
    Try(m0, LAMBDA m : [m EXCEPT !.trace = Append(@, Event("delay_ms", <<ms>>))])

----------------------------------------------------------------------------
(* lib.rs: set_resolution and set_image_format *)

\* the match of set_resolution with the tables of two arms exchanged
ResolutionRegisters_swapped(resolution) ==
    CASE resolution = "R160x120"   -> Table("JPEG_176x144_REGISTERS")
      [] resolution = "R176x144"   -> Table("JPEG_160x120_REGISTERS")
      [] resolution = "R320x240"   -> Table("JPEG_320x240_REGISTERS")
      [] resolution = "R352x288"   -> Table("JPEG_352x288_REGISTERS")
      [] resolution = "R640x480"   -> Table("JPEG_640x480_REGISTERS")
      [] resolution = "R800x600"   -> Table("JPEG_800x600_REGISTERS")
      [] resolution = "R1024x768"  -> Table("JPEG_1024x768_REGISTERS")
      [] resolution = "R1280x1024" -> Table("JPEG_1280x1024_REGISTERS")
      [] resolution = "R1600x1200" -> Table("JPEG_1600x1200_REGISTERS")

\* the match of set_resolution: the table of each resolution
ResolutionRegisters(resolution) ==
    CASE resolution = "R160x120"   -> Table("JPEG_160x120_REGISTERS")
      [] resolution = "R176x144"   -> Table("JPEG_176x144_REGISTERS")
      [] resolution = "R320x240"   -> Table("JPEG_320x240_REGISTERS")
      [] resolution = "R352x288"   -> Table("JPEG_352x288_REGISTERS")
      [] resolution = "R640x480"   -> Table("JPEG_640x480_REGISTERS")
      [] resolution = "R800x600"   -> Table("JPEG_800x600_REGISTERS")
      [] resolution = "R1024x768"  -> Table("JPEG_1024x768_REGISTERS")
      [] resolution = "R1280x1024" -> Table("JPEG_1280x1024_REGISTERS")
      [] resolution = "R1600x1200" -> Table("JPEG_1600x1200_REGISTERS")

\* set_resolution without the format check
set_resolution_unchecked(m0, resolution) ==
    Try(m0, LAMBDA m :
        Try(write_registers(m, ResolutionRegisters(resolution)), LAMBDA w :
            [w EXCEPT !.cfg.resolution = resolution]))

\* set_resolution that lets the sensor settle for 100 ms after the table
set_resolution_settle(m0, resolution) ==
    Try(m0, LAMBDA m :
        IF m.cfg.image_format # "JPEG" THEN Fail(m, "CannotSetImageSizeOnNonJPEG")
        ELSE Try(write_registers(m, ResolutionRegisters(resolution)), LAMBDA w :
                 delay_ms([w EXCEPT !.cfg.resolution = resolution], 100)))

set_resolution(m0, resolution) ==
    Try(m0, LAMBDA m :
        IF m.cfg.image_format # "JPEG" THEN Fail(m, "CannotSetImageSizeOnNonJPEG")
        ELSE Try(write_registers(m, ResolutionRegisters(resolution)), LAMBDA w :
                 [w EXCEPT !.cfg.resolution = resolution]))

\* set_image_format with the delay made before the reset write
set_image_format_early_delay(m0, image_format) ==
    Try(write_register(m0, 255, 1), LAMBDA m1 :
    Try(delay_ms(m1, 100), LAMBDA m2 :
    Try(write_register(m2, 18, 128), LAMBDA m3 :
    Try(IF image_format = "JPEG"
        THEN Try(write_registers(m3, Table("JPEG_INIT_REGISTER")), LAMBDA j1 :
             Try(write_registers(j1, Table("YUV422_REGISTERS")), LAMBDA j2 :
             Try(write_registers(j2, Table("JPEG_REGISTERS")), LAMBDA j3 :
             Try(write_register(j3, 255, 1), LAMBDA j4 :
             Try(write_register(j4, 21, 0), LAMBDA j5 :
                 set_resolution(j5, j5.cfg.resolution))))))
        ELSE write_registers(m3, Table("QVGA_REGISTERS")), LAMBDA m4 :
        [m4 EXCEPT !.cfg.image_format = image_format]))))

set_image_format(m0, image_format) ==
    Try(write_register(m0, 255, 1), LAMBDA m1 :
    Try(write_register(m1, 18, 128), LAMBDA m2 :
    Try(delay_ms(m2, 100), LAMBDA m3 :
    Try(IF image_format = "JPEG"
        THEN Try(write_registers(m3, Table("JPEG_INIT_REGISTER")), LAMBDA j1 :
             Try(write_registers(j1, Table("YUV422_REGISTERS")), LAMBDA j2 :
             Try(write_registers(j2, Table("JPEG_REGISTERS")), LAMBDA j3 :
             Try(write_register(j3, 255, 1), LAMBDA j4 :
             Try(write_register(j4, 21, 0), LAMBDA j5 :
                 set_resolution(j5, j5.cfg.resolution))))))
        ELSE write_registers(m3, Table("QVGA_REGISTERS")), LAMBDA m4 :
        [m4 EXCEPT !.cfg.image_format = image_format]))))

----------------------------------------------------------------------------
(* lib.rs: the five tone and effect setters.  Each issues its writes one   *)
(* write_register call after the other; the lists below are those calls in *)
(* program order for each arm of the match.                                *)

LightModeWrites(light_mode) ==
    <<<<255, 0>>>> \o
    (CASE light_mode = "Auto"   -> <<<<199, 0>>>>
       [] light_mode = "Sunny"  -> <<<<199, 64>>, <<204, 94>>, <<205, 65>>, <<206, 84>>>>
       [] light_mode = "Cloudy" -> <<<<199, 64>>, <<204, 101>>, <<205, 65>>, <<206, 79>>>>
       [] light_mode = "Office" -> <<<<199, 64>>, <<204, 82>>, <<205, 65>>, <<206, 6>>>>
       [] light_mode = "Home"   -> <<<<199, 64>>, <<204, 66>>, <<205, 63>>, <<206, 113>>>>)

set_light_mode(m0, light_mode) ==
    Try(write_registers(m0, LightModeWrites(light_mode)), LAMBDA w :
        [w EXCEPT !.cfg.light_mode = light_mode])

SaturationWrites(saturation) ==
    <<<<255, 0>>, <<124, 0>>, <<125, 2>>, <<124, 4>>>> \o
    (CASE saturation = "Saturation0" -> <<<<125, 104>>, <<125, 104>>>>
       [] saturation = "Saturation1" -> <<<<125, 88>>, <<125, 88>>>>
       [] saturation = "Saturation2" -> <<<<125, 72>>, <<125, 72>>>>
       [] saturation = "Saturation3" -> <<<<125, 56>>, <<125, 56>>>>
       [] saturation = "Saturation4" -> <<<<125, 40>>, <<125, 40>>>>)

set_saturation(m0, saturation) ==
    Try(write_registers(m0, SaturationWrites(saturation)), LAMBDA w :
        [w EXCEPT !.cfg.saturation = saturation])

BrightnessWrites(brightness) ==
    <<<<255, 0>>, <<124, 0>>, <<125, 4>>, <<124, 9>>>> \o
    (CASE brightness = "Brightness0" -> <<<<125, 64>>>>
       [] brightness = "Brightness1" -> <<<<125, 48>>>>
       [] brightness = "Brightness2" -> <<<<125, 32>>>>
       [] brightness = "Brightness3" -> <<<<125, 16>>>>
       [] brightness = "Brightness4" -> <<<<125, 0>>>>) \o
    <<<<125, 0>>>>

set_brightness(m0, brightness) ==
    Try(write_registers(m0, BrightnessWrites(brightness)), LAMBDA w :
        [w EXCEPT !.cfg.brightness = brightness])

ContrastWrites(contrast) ==
    <<<<255, 0>>, <<124, 0>>, <<125, 4>>, <<124, 7>>, <<125, 32>>>> \o
    (CASE contrast = "Contrast0" -> <<<<125, 40>>, <<125, 12>>>>
       [] contrast = "Contrast1" -> <<<<125, 36>>, <<125, 22>>>>
       [] contrast = "Contrast2" -> <<<<125, 32>>, <<125, 32>>>>
       [] contrast = "Contrast3" -> <<<<125, 32>>, <<125, 42>>>>
       [] contrast = "Contrast4" -> <<<<125, 24>>, <<125, 52>>>>) \o
    <<<<125, 6>>>>

\* set_contrast that writes nothing when the snapshot already holds the value
set_contrast_skip_same(m0, contrast) ==
    Try(m0, LAMBDA m :
        IF m.cfg.contrast = contrast THEN m
        ELSE Try(write_registers(m, ContrastWrites(contrast)), LAMBDA w :
                 [w EXCEPT !.cfg.contrast = contrast]))

set_contrast(m0, contrast) ==
    Try(write_registers(m0, ContrastWrites(contrast)), LAMBDA w :
        [w EXCEPT !.cfg.contrast = contrast])

SpecialEffectWrites(special_effect) ==
    <<<<255, 0>>, <<124, 0>>>> \o
    (CASE special_effect = "Antique"    -> <<<<125, 24>>, <<124, 5>>, <<125, 64>>, <<125, 166>>>>
       [] special_effect = "Bluish"     -> <<<<125, 24>>, <<124, 5>>, <<125, 160>>, <<125, 64>>>>
       [] special_effect = "Greenish"   -> <<<<125, 24>>, <<124, 5>>, <<125, 64>>, <<125, 64>>>>
       [] special_effect = "Reddish"    -> <<<<125, 24>>, <<124, 5>>, <<125, 64>>, <<125, 192>>>>
       [] special_effect = "BlackWhite" -> <<<<125, 24>>, <<124, 5>>, <<125, 128>>, <<125, 128>>>>
       [] special_effect = "Negative"   -> <<<<125, 64>>, <<124, 5>>, <<125, 128>>, <<125, 128>>>>
       [] special_effect = "BlackWhiteNegative"
                                        -> <<<<125, 88>>, <<124, 5>>, <<125, 128>>, <<125, 128>>>>
       [] special_effect = "Normal"     -> <<<<125, 0>>, <<124, 5>>, <<125, 128>>, <<125, 128>>>>)

set_special_effect(m0, special_effect) ==
    Try(write_registers(m0, SpecialEffectWrites(special_effect)), LAMBDA w :
        [w EXCEPT !.cfg.special_effect = special_effect])

----------------------------------------------------------------------------
(* lib.rs: init and set_configuration *)

\* init with the resolution applied before the format
init_resolution_first(m0) ==
    Try(set_resolution(m0, m0.cfg.resolution), LAMBDA m1 :
    Try(set_image_format(m1, m1.cfg.image_format), LAMBDA m2 :
    Try(set_light_mode(m2, m2.cfg.light_mode), LAMBDA m3 :
    Try(set_saturation(m3, m3.cfg.saturation), LAMBDA m4 :
    Try(set_brightness(m4, m4.cfg.brightness), LAMBDA m5 :
    Try(set_contrast(m5, m5.cfg.contrast), LAMBDA m6 :
        set_special_effect(m6, m6.cfg.special_effect)))))))

\* init that applies the resolution only when the stored format is JPEG
init_resolution_if_jpeg(m0) ==
    Try(set_image_format(m0, m0.cfg.image_format), LAMBDA m1 :
    Try(IF m1.cfg.image_format = "JPEG"
        THEN set_resolution(m1, m1.cfg.resolution) ELSE m1, LAMBDA m2 :
    Try(set_light_mode(m2, m2.cfg.light_mode), LAMBDA m3 :
    Try(set_saturation(m3, m3.cfg.saturation), LAMBDA m4 :
    Try(set_brightness(m4, m4.cfg.brightness), LAMBDA m5 :
    Try(set_contrast(m5, m5.cfg.contrast), LAMBDA m6 :
        set_special_effect(m6, m6.cfg.special_effect)))))))

init(m0) ==
    Try(set_image_format(m0, m0.cfg.image_format), LAMBDA m1 :
    Try(set_resolution(m1, m1.cfg.resolution), LAMBDA m2 :
    Try(set_light_mode(m2, m2.cfg.light_mode), LAMBDA m3 :
    Try(set_saturation(m3, m3.cfg.saturation), LAMBDA m4 :
    Try(set_brightness(m4, m4.cfg.brightness), LAMBDA m5 :
    Try(set_contrast(m5, m5.cfg.contrast), LAMBDA m6 :
        set_special_effect(m6, m6.cfg.special_effect)))))))

set_configuration(m0, new_configuration) ==
    Try(m0, LAMBDA m : init([m EXCEPT !.cfg = new_configuration]))

----------------------------------------------------------------------------
(* register.rs: the ArduChip registers reached over SPI.  register.rs is    *)
(* not among the sources; the addresses are those of the ArduChip, and the *)
(* model only relies on their being distinct and below 0x80.               *)

FIFO == 4
TRIGGER == 65
FIFO_SIZE_1 == 66
FIFO_SIZE_2 == 67
FIFO_SIZE_3 == 68

----------------------------------------------------------------------------
(* lib.rs: the SPI side *)

\* address | 0x80 on a u8
WriteBit(address) ==
    IF (address \div 128) % 2 = 1 THEN address ELSE address + 128

\* write_spi: one SPI write of [address | 0x80, value]
write_spi(m0, address, value) ==
    Try(m0, LAMBDA m :
        IF ~m.spi THEN Fail(m, "NoSpiPeripheral")
        ELSE LET n == m.nspi + 1
                 w == [m EXCEPT !.nspi = n,
                                !.trace = Append(@, Event("spi_write",
                                                   <<WriteBit(address), value>>))]
             IN  IF n = m.fspi THEN Fail(w, "SpiError") ELSE w)

\* read_spi that answers 0 without a transfer when the handle is absent
read_spi_absent_zero(m0, address) ==
    Try(m0, LAMBDA m :
        IF ~m.spi THEN [m EXCEPT !.val = 0]
        ELSE LET n == m.nspi + 1
                 w == [m EXCEPT !.nspi = n,
                                !.trace = Append(@, Event("spi_transfer",
                                                   <<1, address>>))]
             IN  IF n = m.fspi THEN Fail(w, "SpiError")
                 ELSE [w EXCEPT !.val = Head(m.rx), !.rx = Tail(m.rx)])

\* read_spi: one in-place transfer of the one-byte buffer [address]; the byte
\* the device sent back is left in val
read_spi(m0, address) ==
    Try(m0, LAMBDA m :
        IF ~m.spi THEN Fail(m, "NoSpiPeripheral")
        ELSE LET n == m.nspi + 1
                 w == [m EXCEPT !.nspi = n,
                                !.trace = Append(@, Event("spi_transfer",
                                                   <<1, address>>))]
             IN  IF n = m.fspi THEN Fail(w, "SpiError")
                 ELSE [w EXCEPT !.val = Head(m.rx), !.rx = Tail(m.rx)])

flush_fifo(m) == write_spi(m, FIFO, FIFO_CLEAR_MASK)

\* start_capture that goes on to the start write whatever the clear write returned
start_capture_ignore_clear(m) ==
    CHOOSE r \in {write_spi([w EXCEPT !.err = Ok], FIFO, FIFO_START_MASK) :
                    w \in {write_spi(m, FIFO, FIFO_CLEAR_MASK)}} : TRUE

start_capture(m) ==
    Try(write_spi(m, FIFO, FIFO_CLEAR_MASK), LAMBDA m1 :
        write_spi(m1, FIFO, FIFO_START_MASK))

\* v & mask != 0 for the one-bit mask CAPTURE_COMPLETE_MASK
MaskSet(v, mask) == (v \div mask) % 2 = 1

is_capture_done(m) ==
    Try(read_spi(m, TRIGGER), LAMBDA r :
        [r EXCEPT !.ret = <<MaskSet(r.val, CAPTURE_COMPLETE_MASK)>>])

\* u32::from_be_bytes: four bytes, most significant first (always below 2^32)
from_be_bytes(bytes) ==
    ((bytes[1] * 256 + bytes[2]) * 256 + bytes[3]) * 256 + bytes[4]

\* image_size with the three bytes composed in the order they were read
image_size_read_order(m) ==
    Try(read_spi(m, FIFO_SIZE_1), LAMBDA r1 :
    Try(read_spi(r1, FIFO_SIZE_2), LAMBDA r2 :
    Try(read_spi(r2, FIFO_SIZE_3), LAMBDA r3 :
        [r3 EXCEPT !.ret = <<from_be_bytes(<<0, r1.val, r2.val, r3.val>>)>>])))

\* image_size; `as usize` keeps the value (usize holds MAX_FIFO_SIZE, so it is
\* at least 32 bits wide)
image_size(m) ==
    Try(read_spi(m, FIFO_SIZE_1), LAMBDA r1 :
    Try(read_spi(r1, FIFO_SIZE_2), LAMBDA r2 :
    Try(read_spi(r2, FIFO_SIZE_3), LAMBDA r3 :
        [r3 EXCEPT !.ret = <<from_be_bytes(<<0, r3.val, r2.val, r1.val>>)>>])))

\* spi.write(&[FIFO_BURST]) inside read_image
write_burst(m0) ==
    Try(m0, LAMBDA m :
        LET n == m.nspi + 1
            w == [m EXCEPT !.nspi = n,
                           !.trace = Append(@, Event("spi_write", <<FIFO_BURST>>))]
        IN  IF n = m.fspi THEN Fail(w, "SpiError") ELSE w)

\* spi.transfer_in_place(buffer) inside read_image: on success the buffer holds
\* what the device sent; after a failed transfer its contents are not defined
transfer_in_place(m0) ==
    Try(m0, LAMBDA m :
        LET n == m.nspi + 1
            t == [m EXCEPT !.nspi = n,
                           !.trace = Append(@, Event("spi_transfer", <<m.buf.len>>))]
        IN  IF n = m.fspi
            THEN Fail([t EXCEPT !.buf.content = "undefined"], "SpiError")
            ELSE [t EXCEPT !.buf.content = "device"])

\* read_image that sends the burst marker before it compares the lengths
read_image_burst_first(m) ==
    Try(image_size(m), LAMBDA s :
        IF ~s.spi THEN Fail(s, "NoSpiPeripheral")
        ELSE Try(write_burst(s), LAMBDA w :
                 IF w.buf.len < w.ret[1] THEN Fail(w, "InvalidBufferSize")
                 ELSE transfer_in_place(w)))

\* read_image that also rejects a buffer of exactly the measured length
read_image_strict(m) ==
    Try(image_size(m), LAMBDA s :
        IF s.buf.len <= s.ret[1] THEN Fail(s, "InvalidBufferSize")
        ELSE IF ~s.spi THEN Fail(s, "NoSpiPeripheral")
        ELSE transfer_in_place(write_burst(s)))

\* read_image(buffer): buf is the caller's buffer
read_image(m) ==
    Try(image_size(m), LAMBDA s :
        IF s.buf.len < s.ret[1] THEN Fail(s, "InvalidBufferSize")
        ELSE IF ~s.spi THEN Fail(s, "NoSpiPeripheral")
        ELSE transfer_in_place(write_burst(s)))

\* take_spi that empties the I2C slot
take_spi_wrong_slot(m) ==
    [m EXCEPT !.i2c = FALSE, !.ret = IF m.spi THEN <<"SPI">> ELSE <<>>]

\* Option::take on the two handles
take_spi(m) == [m EXCEPT !.spi = FALSE, !.ret = IF m.spi THEN <<"SPI">> ELSE <<>>]

\* take_i2c that hands the handle out and keeps it in the slot
take_i2c_keep(m) == [m EXCEPT !.ret = IF m.i2c THEN <<"I2C">> ELSE <<>>]

take_i2c(m) == [m EXCEPT !.i2c = FALSE, !.ret = IF m.i2c THEN <<"I2C">> ELSE <<>>]

----------------------------------------------------------------------------
(* lib.rs: the connection checks.  TEST_REGISTER (ArduChip) and            *)
(* CHIP_ID_HIGH / CHIP_ID_LOW (sensor) are defined in register.rs; the     *)
(* model only relies on the two chip-id registers being distinct.          *)

TEST_REGISTER == 0
CHIP_ID_HIGH == 10
CHIP_ID_LOW == 11

\* read_register: one I2C write_read of [register] into a one-byte buffer; the
\* byte read is left in val
read_register(m0, register) ==
    Try(m0, LAMBDA m :
        IF ~m.i2c THEN Fail(m, "NoI2cPeripheral")
        ELSE LET n == m.ni2c + 1
                 w == [m EXCEPT !.ni2c = n,
                                !.trace = Append(@, Event("i2c_write_read",
                                                   <<I2C_ADDRESS, register>>))]
             IN  IF n = m.fi2c THEN Fail(w, "I2CError")
                 ELSE [w EXCEPT !.val = Head(m.rx), !.rx = Tail(m.rx)])

\* i2c_connected: as written, through write_spi and read_spi
i2c_connected(m) ==
    Try(write_spi(m, TEST_REGISTER, 82), LAMBDA w :
    Try(read_spi(w, TEST_REGISTER), LAMBDA r :
        [r EXCEPT !.ret = <<r.val = 82>>]))

\* spi_connected: as written, through write_register and read_register
spi_connected(m) ==
    Try(write_register(m, 255, 1), LAMBDA w :
    Try(read_register(w, CHIP_ID_HIGH), LAMBDA h :
    Try(read_register(h, CHIP_ID_LOW), LAMBDA l :
        [l EXCEPT !.ret = <<l.val = 38 /\ (h.val = 65 \/ h.val = 66)>>])))

----------------------------------------------------------------------------
(* The inputs the model draws *)

\* tone settings a device is constructed or reconfigured with: the defaults of
\* build() and one profile that differs from them in every field
ToneProfiles ==
    {[light_mode |-> "Auto", saturation |-> "Saturation0",
      brightness |-> "Brightness0", contrast |-> "Contrast0",
      special_effect |-> "Normal"],
     [light_mode |-> "Sunny", saturation |-> "Saturation2",
      brightness |-> "Brightness3", contrast |-> "Contrast4",
      special_effect |-> "Antique"]}

WithTones(image_format, resolution, t) ==
    [image_format |-> image_format, resolution |-> resolution,
     light_mode |-> t.light_mode, saturation |-> t.saturation,
     brightness |-> t.brightness, contrast |-> t.contrast,
     special_effect |-> t.special_effect]

\* every format and resolution, with each tone profile
Snapshots ==
    {WithTones(f, r, t) : f \in ImageFormat, r \in Resolution, t \in ToneProfiles}

\* the configurations passed to set_configuration
NewConfigurations ==
    {c \in Snapshots : c.resolution \in {"R1024x768", "R320x240"}}

\* bytes the three length registers return, and bytes the trigger register returns
LengthBytes == {0, 2, 255}

StatusBytes == {0, 8, 247, 255}

\* bytes the test register and the two chip-id registers return
TestBytes == {82, 0}

ChipIdHighBytes == {65, 66, 0}

ChipIdLowBytes == {38, 0}

NoBuffer == [len |-> 0, content |-> "none"]

\* the frame of a call on the current device
Call(fi2c, fspi, rx, buf) == Frame(configuration, i2c, spi, fi2c, fspi, rx, buf)

ConfigCall(fi2c) == Call(fi2c, 0, <<>>, NoBuffer)

\* the method returns: the device fields and the observation of the call
Return(name, a, e) ==
    \E m \in {e} :
       /\ configuration' = m.cfg
       /\ i2c' = m.i2c
       /\ spi' = m.spi
       /\ op' = name
       /\ arg' = a
       /\ pre' = configuration
       /\ result' = m.err
       /\ ret' = (IF m.err = Ok THEN m.ret ELSE <<>>)
       /\ trace' = m.trace
       /\ buffer' = m.buf
       /\ env' = [fi2c |-> m.fi2c, fspi |-> m.fspi, rx |-> m.rx0]
       /\ initialized' =
              (initialized \/ (name \in {"init", "set_configuration"} /\ m.err = Ok))
       /\ builder' = builder

----------------------------------------------------------------------------
(* One action per public method.  The I2C (SPI) transaction that fails     *)
(* ranges over none (0) and every transaction the call would make; a call  *)
(* that makes none is also tried on a transport set to fail at once.       *)

Faults(n) == 0..(IF n = 0 THEN 1 ELSE n)

SetImageFormat ==
    \E image_format \in ImageFormat :
      \E k \in Faults(set_image_format(ConfigCall(0), image_format).ni2c) :
        Return("set_image_format", image_format,
               set_image_format(ConfigCall(k), image_format))

SetResolution ==
    \E resolution \in Resolution :
      \E k \in Faults(set_resolution(ConfigCall(0), resolution).ni2c) :
        Return("set_resolution", resolution,
               set_resolution(ConfigCall(k), resolution))

SetLightMode ==
    \E light_mode \in LightMode :
      \E k \in Faults(set_light_mode(ConfigCall(0), light_mode).ni2c) :
        Return("set_light_mode", light_mode,
               set_light_mode(ConfigCall(k), light_mode))

SetSaturation ==
    \E saturation \in Saturation :
      \E k \in Faults(set_saturation(ConfigCall(0), saturation).ni2c) :
        Return("set_saturation", saturation,
               set_saturation(ConfigCall(k), saturation))

SetBrightness ==
    \E brightness \in Brightness :
      \E k \in Faults(set_brightness(ConfigCall(0), brightness).ni2c) :
        Return("set_brightness", brightness,
               set_brightness(ConfigCall(k), brightness))

SetContrast ==
    \E contrast \in Contrast :
      \E k \in Faults(set_contrast(ConfigCall(0), contrast).ni2c) :
        Return("set_contrast", contrast, set_contrast(ConfigCall(k), contrast))

SetSpecialEffect ==
    \E special_effect \in SpecialEffect :
      \E k \in Faults(set_special_effect(ConfigCall(0), special_effect).ni2c) :
        Return("set_special_effect", special_effect,
               set_special_effect(ConfigCall(k), special_effect))

DoInit ==
    \E k \in Faults(init(ConfigCall(0)).ni2c) :
      Return("init", None, init(ConfigCall(k)))

SetConfiguration ==
    \E c \in NewConfigurations :
      \E k \in Faults(set_configuration(ConfigCall(0), c).ni2c) :
        Return("set_configuration", c, set_configuration(ConfigCall(k), c))

FlushFifo ==
    \E j \in Faults(flush_fifo(Call(0, 0, <<>>, NoBuffer)).nspi) :
      Return("flush_fifo", None, flush_fifo(Call(0, j, <<>>, NoBuffer)))

StartCapture ==
    \E j \in Faults(start_capture(Call(0, 0, <<>>, NoBuffer)).nspi) :
      Return("start_capture", None, start_capture(Call(0, j, <<>>, NoBuffer)))

IsCaptureDone ==
    \E b \in StatusBytes :
      \E j \in Faults(is_capture_done(Call(0, 0, <<b>>, NoBuffer)).nspi) :
        Return("is_capture_done", None,
               is_capture_done(Call(0, j, <<b>>, NoBuffer)))

ImageSize ==
    \E b1 \in LengthBytes, b2 \in LengthBytes, b3 \in LengthBytes :
      \E j \in Faults(image_size(Call(0, 0, <<b1, b2, b3>>, NoBuffer)).nspi) :
        Return("image_size", None,
               image_size(Call(0, j, <<b1, b2, b3>>, NoBuffer)))

\* the buffer lengths tried: around the length the device reports, and empty
BufferLens(b1, b2, b3) ==
    LET size == from_be_bytes(<<0, b3, b2, b1>>)
    IN  {n \in {0, size - 1, size, size + 1} : n >= 0}

ReadImage ==
    \E b1 \in LengthBytes, b2 \in LengthBytes, b3 \in LengthBytes :
      \E n \in BufferLens(b1, b2, b3) :
        LET buf == [len |-> n, content |-> "caller"]
        IN  \E j \in Faults(read_image(Call(0, 0, <<b1, b2, b3>>, buf)).nspi) :
              Return("read_image", n, read_image(Call(0, j, <<b1, b2, b3>>, buf)))

TakeSpi ==
    \E m \in {take_spi(Call(0, 0, <<>>, NoBuffer))} : Return("take_spi", None, m)

TakeI2c ==
    \E m \in {take_i2c(Call(0, 0, <<>>, NoBuffer))} : Return("take_i2c", None, m)

I2cConnected ==
    \E b \in TestBytes :
      \E j \in Faults(i2c_connected(Call(0, 0, <<b>>, NoBuffer)).nspi) :
        Return("i2c_connected", None, i2c_connected(Call(0, j, <<b>>, NoBuffer)))

SpiConnected ==
    \E high \in ChipIdHighBytes, low \in ChipIdLowBytes :
      \E k \in Faults(spi_connected(Call(0, 0, <<high, low>>, NoBuffer)).ni2c) :
        Return("spi_connected", None,
               spi_connected(Call(k, 0, <<high, low>>, NoBuffer)))

----------------------------------------------------------------------------
(* Construction: OV2640::new and OV2640::with_configuration *)

Constructed(c, hasI2c, hasSpi) ==
    /\ configuration = c
    /\ i2c = hasI2c
    /\ spi = hasSpi
    /\ op = "new"
    /\ arg = None
    /\ pre = c
    /\ result = Ok
    /\ ret = <<>>
    /\ trace = <<>>
    /\ buffer = NoBuffer
    /\ env = [fi2c |-> 0, fspi |-> 0, rx |-> <<>>]
    /\ initialized = FALSE
    /\ builder = ConfigurationBuilder_default

new(hasI2c, hasSpi) ==
    Constructed(build(ConfigurationBuilder_default), hasI2c, hasSpi)

with_configuration(c, hasI2c, hasSpi) == Constructed(c, hasI2c, hasSpi)

----------------------------------------------------------------------------
(* SpecConfig: one call of a configuration method, with any argument and   *)
(* any failing write, or of a capture method or a take, on a device built  *)
(* by with_configuration() with any format, any resolution, either tone    *)
(* profile and any combination of handles.                                 *)

InitConfig ==
    \E c \in Snapshots, hasI2c \in BOOLEAN, hasSpi \in BOOLEAN :
       with_configuration(c, hasI2c, hasSpi)

NextConfig ==
    \/ op = "new" /\ SetImageFormat
    \/ op = "new" /\ SetResolution
    \/ op = "new" /\ SetLightMode
    \/ op = "new" /\ SetSaturation
    \/ op = "new" /\ SetBrightness
    \/ op = "new" /\ SetContrast
    \/ op = "new" /\ SetSpecialEffect
    \/ op = "new" /\ DoInit
    \/ op = "new" /\ SetConfiguration
    \/ op = "new" /\ TakeI2c
    \/ op = "new" /\ TakeSpi
    \/ op = "new" /\ FlushFifo
    \/ op = "new" /\ StartCapture
    \/ op = "new" /\ IsCaptureDone
    \/ op = "new" /\ ImageSize
    \/ op = "new" /\ ReadImage

SpecConfig == InitConfig /\ [][NextConfig]_vars

(* SpecCapture: any sequence of capture methods and take_spi on a device   *)
(* built by new() with any combination of handles.                         *)

InitCapture == \E hasI2c \in BOOLEAN, hasSpi \in BOOLEAN : new(hasI2c, hasSpi)

NextCapture ==
    \/ FlushFifo
    \/ StartCapture
    \/ IsCaptureDone
    \/ ImageSize
    \/ ReadImage
    \/ TakeSpi

SpecCapture == InitCapture /\ [][NextCapture]_vars

(* SpecDevice: any sequence of calls around the withdrawal of the handles, *)
(* on a device built by with_configuration() with either format, the       *)
(* defaults otherwise, and any combination of handles.  init,              *)
(* set_image_format, the connection checks, flush_fifo, start_capture,     *)
(* is_capture_done and the two takes are called in every state; the other  *)
(* configuration methods, which have many arguments, are called here once  *)
(* the I2C handle is absent (SpecConfig calls them with the handle         *)
(* present); image_size and read_image are called in SpecCapture.          *)

InitDevice ==
    \E f \in ImageFormat, hasI2c \in BOOLEAN, hasSpi \in BOOLEAN :
       with_configuration([build(ConfigurationBuilder_default)
                               EXCEPT !.image_format = f], hasI2c, hasSpi)

NextDevice ==
    \/ DoInit
    \/ SetImageFormat
    \/ I2cConnected
    \/ SpiConnected
    \/ FlushFifo
    \/ StartCapture
    \/ IsCaptureDone
    \/ TakeSpi
    \/ TakeI2c
    \/ ~i2c /\ SetResolution
    \/ ~i2c /\ SetLightMode
    \/ ~i2c /\ SetSaturation
    \/ ~i2c /\ SetBrightness
    \/ ~i2c /\ SetContrast
    \/ ~i2c /\ SetSpecialEffect
    \/ ~i2c /\ SetConfiguration

SpecDevice == InitDevice /\ [][NextDevice]_vars

(* SpecBuilder: the caller's ConfigurationBuilder: new(), the seven        *)
(* setters in any order and any number of times, and build().  Each setter *)
(* is given the default of its field or one other value.                   *)

BuilderValues ==
    [image_format   |-> {"JPEG", "QVGA"},
     resolution     |-> {"R1024x768", "R160x120"},
     light_mode     |-> {"Auto", "Home"},
     saturation     |-> {"Saturation0", "Saturation3"},
     brightness     |-> {"Brightness0", "Brightness1"},
     contrast       |-> {"Contrast0", "Contrast4"},
     special_effect |-> {"Normal", "Negative"}]

\* a method of the builder returns; the device is not involved
BuilderReturn(name, a, b, r) ==
    /\ builder' = b
    /\ op' = name
    /\ arg' = a
    /\ result' = Ok
    /\ ret' = r
    /\ UNCHANGED <<configuration, i2c, spi, pre, trace, buffer, env, initialized>>

BuilderNew ==
    \E b \in {ConfigurationBuilder_new} :
       BuilderReturn("ConfigurationBuilder::new", None, b, <<>>)

BuilderImageFormat ==
    \E v \in BuilderValues.image_format :
       \E b \in {BuilderSet(builder, "image_format", v)} :
          BuilderReturn("image_format", v, b, <<>>)

BuilderResolution ==
    \E v \in BuilderValues.resolution :
       \E b \in {BuilderSet(builder, "resolution", v)} :
          BuilderReturn("resolution", v, b, <<>>)

BuilderLightMode ==
    \E v \in BuilderValues.light_mode :
       \E b \in {BuilderSet(builder, "light_mode", v)} :
          BuilderReturn("light_mode", v, b, <<>>)

BuilderSaturation ==
    \E v \in BuilderValues.saturation :
       \E b \in {BuilderSet(builder, "saturation", v)} :
          BuilderReturn("saturation", v, b, <<>>)

BuilderBrightness ==
    \E v \in BuilderValues.brightness :
       \E b \in {BuilderSet(builder, "brightness", v)} :
          BuilderReturn("brightness", v, b, <<>>)

BuilderContrast ==
    \E v \in BuilderValues.contrast :
       \E b \in {BuilderSet(builder, "contrast", v)} :
          BuilderReturn("contrast", v, b, <<>>)

BuilderSpecialEffect ==
    \E v \in BuilderValues.special_effect :
       \E b \in {BuilderSet(builder, "special_effect", v)} :
          BuilderReturn("special_effect", v, b, <<>>)

Build ==
    \E c \in {build(builder)} : BuilderReturn("build", None, builder, <<c>>)

InitBuilder == new(FALSE, FALSE)

NextBuilder ==
    \/ BuilderNew
    \/ BuilderImageFormat
    \/ BuilderResolution
    \/ BuilderLightMode
    \/ BuilderSaturation
    \/ BuilderBrightness
    \/ BuilderContrast
    \/ BuilderSpecialEffect
    \/ Build

SpecBuilder == InitBuilder /\ [][NextBuilder]_vars

----------------------------------------------------------------------------
(* Reading a trace *)

IsI2cWrite(e) == e.ev = "i2c_write"

IsDelay(e) == e.ev = "delay_ms"

\* a write of an entry of one of the bulk tables
IsTableWrite(e) == IsI2cWrite(e) /\ e.data[2] >= 256

\* the [register, value] pairs written on the I2C bus, in order
I2cWrites(t) ==
    LET w == SelectSeq(t, IsI2cWrite)
    IN  [i \in 1..Len(w) |-> <<w[i].data[2], w[i].data[3]>>]

Delays(t) == SelectSeq(t, IsDelay)

IsPrefix(a, b) == Len(a) <= Len(b) /\ a = SubSeq(b, 1, Len(a))

\* positions of the trace that hold an event of kind ev
Positions(t, ev) == {i \in 1..Len(t) : t[i].ev = ev}

----------------------------------------------------------------------------
(* Properties of set_resolution and set_image_format (SpecConfig) *)

\* C1: set_resolution called while the stored format is not JPEG returns
\* CannotSetImageSizeOnNonJPEG, issues no write on the configuration channel and
\* leaves the snapshot unchanged, for every resolution and whether the channel
\* is present, absent or failing.
C1_ResolutionRejectedOnNonJpeg ==
    (op = "set_resolution" /\ pre.image_format # "JPEG") =>
        /\ result = "CannotSetImageSizeOnNonJPEG"
        /\ trace = <<>>
        /\ configuration = pre

C1_Witness ==
    /\ op = "set_resolution"
    /\ pre.image_format = "QVGA"
    /\ arg = "R1600x1200"
    /\ i2c
    /\ env.fi2c = 1
    /\ result = "CannotSetImageSizeOnNonJPEG"

\* the writes set_image_format(JPEG) makes when every write succeeds, by the
\* specification: bank select, reset, the three JPEG tables, two more registers,
\* then the table of the stored resolution
JpegSwitchWrites(resolutionTable) ==
    <<<<255, 1>>, <<18, 128>>>> \o Table("JPEG_INIT_REGISTER")
    \o Table("YUV422_REGISTERS") \o Table("JPEG_REGISTERS")
    \o <<<<255, 1>>, <<21, 0>>>> \o resolutionTable

\* the bulk table of each resolution
TableOf ==
    [R160x120   |-> Table("JPEG_160x120_REGISTERS"),
     R176x144   |-> Table("JPEG_176x144_REGISTERS"),
     R320x240   |-> Table("JPEG_320x240_REGISTERS"),
     R352x288   |-> Table("JPEG_352x288_REGISTERS"),
     R640x480   |-> Table("JPEG_640x480_REGISTERS"),
     R800x600   |-> Table("JPEG_800x600_REGISTERS"),
     R1024x768  |-> Table("JPEG_1024x768_REGISTERS"),
     R1280x1024 |-> Table("JPEG_1280x1024_REGISTERS"),
     R1600x1200 |-> Table("JPEG_1600x1200_REGISTERS")]

\* C2: set_image_format(JPEG) with the configuration channel present and every
\* write succeeding loads the JPEG tables, then the table of the stored
\* resolution, returns Ok and leaves the stored format JPEG, whatever the
\* format stored before.
C2_SwitchToJpegSucceeds ==
    (op = "set_image_format" /\ arg = "JPEG" /\ i2c /\ env.fi2c = 0) =>
        /\ result = Ok
        /\ configuration.image_format = "JPEG"
        /\ I2cWrites(trace) = JpegSwitchWrites(TableOf[pre.resolution])

\* C4 as stated: every call of set_image_format, whatever the outcome of its
\* writes, makes the 100 ms delay exactly once, after the bank-select and reset
\* writes and before any mode-table write.
C4_DelayOnceAlways ==
    op = "set_image_format" =>
        /\ Len(Delays(trace)) = 1
        /\ Len(trace) >= 3
        /\ trace[3] = Event("delay_ms", <<100>>)
        /\ I2cWrites(SubSeq(trace, 1, 2)) = <<<<255, 1>>, <<18, 128>>>>

\* C4 amended: a call of set_image_format whose bank-select and reset writes
\* both succeed makes the 100 ms delay exactly once, right after those two
\* writes and before every mode-table write, whatever the outcome of the later
\* writes; a call in which one of the two fails, or that finds no I2C handle,
\* makes no delay.
C4_DelayOnceAfterReset ==
    op = "set_image_format" =>
        IF i2c /\ env.fi2c \notin {1, 2}
        THEN /\ Positions(trace, "delay_ms") = {3}
             /\ trace[3] = Event("delay_ms", <<100>>)
             /\ I2cWrites(SubSeq(trace, 1, 2)) = <<<<255, 1>>, <<18, 128>>>>
             /\ \A i \in Positions(trace, "i2c_write") :
                    IsTableWrite(trace[i]) => i > 3
        ELSE Delays(trace) = <<>>

C4_Witness ==
    /\ op = "set_image_format"
    /\ arg = "QVGA"
    /\ result = "I2CError"
    /\ env.fi2c = 4
    /\ Positions(trace, "delay_ms") = {3}

\* C5: set_resolution on a device whose stored format is JPEG writes the entries
\* of the table of the requested resolution, in table order and nothing else:
\* all of them unless a write fails, and then those up to the failing one.  The
\* stored resolution becomes the requested one exactly when every write
\* succeeded; otherwise the snapshot is as before.
C5_ResolutionTableThenCommit ==
    (op = "set_resolution" /\ pre.image_format = "JPEG") =>
        /\ \A i \in DOMAIN trace : IsI2cWrite(trace[i])
        /\ IsPrefix(I2cWrites(trace), TableOf[arg])
        /\ (i2c /\ env.fi2c = 0) => I2cWrites(trace) = TableOf[arg]
        /\ (i2c /\ env.fi2c > 0) => Len(trace) = env.fi2c
        /\ result = Ok <=> (i2c /\ env.fi2c = 0)
        /\ configuration = IF result = Ok THEN [pre EXCEPT !.resolution = arg]
                           ELSE pre

C5_Witness ==
    /\ op = "set_resolution"
    /\ pre.image_format = "JPEG"
    /\ pre.resolution = "R1024x768"
    /\ arg = "R176x144"
    /\ result = "I2CError"
    /\ Len(trace) = TableLen
    /\ configuration.resolution = "R1024x768"

----------------------------------------------------------------------------
(* Properties of whole write sequences (SpecConfig) *)

\* a device holding cfg with both handles and transports that do not fail
Sound(cfg) == Frame(cfg, TRUE, TRUE, 0, 0, <<>>, NoBuffer)

Fields ==
    <<"image_format", "resolution", "light_mode", "saturation", "brightness",
      "contrast", "special_effect">>

\* the setter of field f called alone with value v on a sound device holding cfg
SetterRun(f, v, cfg) ==
    CASE f = "image_format"   -> set_image_format(Sound(cfg), v)
      [] f = "resolution"     -> set_resolution(Sound(cfg), v)
      [] f = "light_mode"     -> set_light_mode(Sound(cfg), v)
      [] f = "saturation"     -> set_saturation(Sound(cfg), v)
      [] f = "brightness"     -> set_brightness(Sound(cfg), v)
      [] f = "contrast"       -> set_contrast(Sound(cfg), v)
      [] f = "special_effect" -> set_special_effect(Sound(cfg), v)

\* the writes s occur in w as one block that does not hold the failed write
AppliedIn(w, s, failed) ==
    \E i \in 0..(Len(w) - Len(s)) :
       /\ SubSeq(w, i + 1, i + Len(s)) = s
       /\ failed \notin (i + 1)..(i + Len(s))

\* C3: every field of the snapshot holds the value it had when the method was
\* entered or a value whose whole write sequence was issued, without a failing
\* write, by the method; by induction over the calls the snapshot never holds
\* a value that was not applied to the device.
C3_SnapshotHoldsAppliedValues ==
    \A n \in DOMAIN Fields :
       LET f == Fields[n]
       IN  configuration[f] # pre[f] =>
              AppliedIn(I2cWrites(trace),
                        I2cWrites(SetterRun(f, configuration[f], configuration).trace),
                        env.fi2c)

ConfigOps ==
    {"set_image_format", "set_resolution", "set_light_mode", "set_saturation",
     "set_brightness", "set_contrast", "set_special_effect", "init",
     "set_configuration"}

\* the method op called with argument a on a sound device holding cfg
SoundRun(name, a, cfg) ==
    CASE name = "set_image_format"   -> set_image_format(Sound(cfg), a)
      [] name = "set_resolution"     -> set_resolution(Sound(cfg), a)
      [] name = "set_light_mode"     -> set_light_mode(Sound(cfg), a)
      [] name = "set_saturation"     -> set_saturation(Sound(cfg), a)
      [] name = "set_brightness"     -> set_brightness(Sound(cfg), a)
      [] name = "set_contrast"       -> set_contrast(Sound(cfg), a)
      [] name = "set_special_effect" -> set_special_effect(Sound(cfg), a)
      [] name = "init"               -> init(Sound(cfg))
      [] name = "set_configuration"  -> set_configuration(Sound(cfg), a)

\* C6: when the k-th write of a configuration method fails, the method returns
\* that failure, the failing write is the last write it issues and it is issued
\* once, and the writes issued are the first k writes the method issues when no
\* write fails.
C6_AbortAtFirstFailingWrite ==
    LET full == I2cWrites(SoundRun(op, arg, pre).trace)
    IN  (op \in ConfigOps /\ i2c /\ env.fi2c >= 1 /\ env.fi2c <= Len(full)) =>
           /\ result = "I2CError"
           /\ Len(I2cWrites(trace)) = env.fi2c
           /\ I2cWrites(trace) = SubSeq(full, 1, env.fi2c)

C6_Witness ==
    /\ op = "set_saturation"
    /\ arg = "Saturation0"
    /\ result = "I2CError"
    /\ env.fi2c = 5
    /\ I2cWrites(trace) = <<<<255, 0>>, <<124, 0>>, <<125, 2>>, <<124, 4>>, <<125, 104>>>>

\* the writes of the settings of cfg applied one after the other from the n-th
\* field of Fields on, up to the first setter that returns an error
RECURSIVE WritesInOrder(_, _)
WritesInOrder(cfg, n) ==
    IF n > Len(Fields) THEN <<>>
    ELSE LET r == SetterRun(Fields[n], cfg[Fields[n]], cfg)
         IN  I2cWrites(r.trace)
             \o (IF r.err # Ok THEN <<>> ELSE WritesInOrder(cfg, n + 1))

\* what the first failing setter returns, Ok if none fails
RECURSIVE OutcomeInOrder(_, _)
OutcomeInOrder(cfg, n) ==
    IF n > Len(Fields) THEN Ok
    ELSE LET r == SetterRun(Fields[n], cfg[Fields[n]], cfg)
         IN  IF r.err # Ok THEN r.err ELSE OutcomeInOrder(cfg, n + 1)

\* C7: the writes of one init() are those of the stored image_format, then
\* resolution, light_mode, saturation, brightness, contrast and special_effect,
\* each setting's writes before those of the next; init() stops at the first
\* setting that fails, returns that failure and writes nothing of a later
\* setting.
C7_InitOrder ==
    op = "init" =>
        LET w == I2cWrites(trace)
            expected == WritesInOrder(pre, 1)
        IN  /\ IsPrefix(w, expected)
            /\ (i2c /\ env.fi2c = 0) =>
                   (w = expected /\ result = OutcomeInOrder(pre, 1))
            /\ (i2c /\ env.fi2c > 0) =>
                   (Len(w) = env.fi2c /\ result = "I2CError")
            /\ ~i2c => (w = <<>> /\ result = "NoI2cPeripheral")

\* init() on a JPEG device fails at the first write of the saturation sequence
C7_Witness ==
    /\ op = "init"
    /\ pre.image_format = "JPEG"
    /\ pre.light_mode = "Sunny"
    /\ result = "I2CError"
    /\ env.fi2c = Len(JpegSwitchWrites(TableOf[pre.resolution])) + TableLen + 5 + 1
    /\ I2cWrites(trace)[env.fi2c] = <<255, 0>>
    /\ I2cWrites(trace)[env.fi2c - 1] = <<206, 84>>

----------------------------------------------------------------------------
(* Properties of the capture methods (SpecCapture) *)

\* the length the three length registers report: (b3 << 16) | (b2 << 8) | b1
\* for the bytes b1, b2, b3 in the order they are read
Measured(rx) == rx[3] * 65536 + rx[2] * 256 + rx[1]

\* the three single-register reads of image_size
LengthReads ==
    <<Event("spi_transfer", <<1, FIFO_SIZE_1>>),
      Event("spi_transfer", <<1, FIFO_SIZE_2>>),
      Event("spi_transfer", <<1, FIFO_SIZE_3>>)>>

BurstWrite == Event("spi_write", <<FIFO_BURST>>)

\* read_image measured the image: the handle is there and the reads succeeded
SizeMeasured == op = "read_image" /\ spi /\ env.fspi \notin 1..3

\* C8 as stated: read_image with a buffer shorter than the measured size returns
\* InvalidBufferSize, and during the call no burst-marker write and no transfer
\* at all is issued on the streaming channel, and the buffer is not modified.
C8_NoTransferAtAll ==
    (SizeMeasured /\ arg < Measured(env.rx)) =>
        /\ result = "InvalidBufferSize"
        /\ \A i \in DOMAIN trace : trace[i] # BurstWrite
        /\ Positions(trace, "spi_transfer") = {}
        /\ buffer = [len |-> arg, content |-> "caller"]

\* C8 amended: read_image with a buffer shorter than the measured size returns
\* InvalidBufferSize; the only activity on the streaming channel during the
\* call is the three one-byte length-register transfers of image_size: no
\* burst-marker write and no transfer of the buffer; the buffer is not modified.
C8_NoBurstOnShortBuffer ==
    (SizeMeasured /\ arg < Measured(env.rx)) =>
        /\ result = "InvalidBufferSize"
        /\ trace = LengthReads
        /\ buffer = [len |-> arg, content |-> "caller"]

C8_Witness ==
    /\ op = "read_image"
    /\ env.rx = <<0, 2, 0>>
    /\ arg = 511
    /\ result = "InvalidBufferSize"

\* C9: read_image with a buffer at least as long as the measured size (equal
\* included), the streaming channel present and not failing, issues after the
\* length reads the burst-marker write (the single byte 0x3C) followed by
\* exactly one transfer, that of the buffer, and returns the measured length.
C9_BurstThenOneTransfer ==
    (op = "read_image" /\ spi /\ env.fspi = 0 /\ arg >= Measured(env.rx)) =>
        /\ result = Ok
        /\ ret = <<Measured(env.rx)>>
        /\ trace = LengthReads \o <<BurstWrite, Event("spi_transfer", <<arg>>)>>
        /\ buffer = [len |-> arg, content |-> "device"]

C9_Witness ==
    /\ op = "read_image"
    /\ env.rx = <<255, 2, 0>>
    /\ arg = 767
    /\ result = Ok
    /\ ret = <<767>>

\* C10: image_size() reads FIFO_SIZE_1, FIFO_SIZE_2, FIFO_SIZE_3 in that order
\* and returns (b3 << 16) | (b2 << 8) | b1 for the bytes b1, b2, b3 read; if a
\* read fails it returns that failure and makes no later read.
C10_ImageSizeComposition ==
    op = "image_size" =>
        /\ (spi /\ env.fspi = 0) =>
               (result = Ok /\ ret = <<Measured(env.rx)>> /\ trace = LengthReads)
        /\ (spi /\ env.fspi \in 1..3) =>
               /\ result = "SpiError"
               /\ ret = <<>>
               /\ trace = SubSeq(LengthReads, 1, env.fspi)

C10_Witness ==
    /\ op = "image_size"
    /\ env.rx = <<0, 2, 255>>
    /\ result = Ok
    /\ ret = <<16712192>>

----------------------------------------------------------------------------
(* The measured length and the frame-buffer capacity (SpecCapture) *)

\* C11: every length returned by image_size() and by a successful read_image()
\* lies in 0 .. MAX_FIFO_SIZE, whatever bytes the three length registers return.
C11_LengthWithinFifo ==
    (op \in {"image_size", "read_image"} /\ result = Ok) =>
        (ret[1] >= 0 /\ ret[1] <= MAX_FIFO_SIZE)

----------------------------------------------------------------------------
(* Absent handles (SpecCapture, SpecDevice) *)

CaptureOps ==
    {"flush_fifo", "start_capture", "is_capture_done", "image_size", "read_image"}

\* C12: a capture method (flush_fifo, start_capture, is_capture_done,
\* image_size, read_image with any buffer length) called while the SPI handle is
\* absent, whether the device was constructed without it or take_spi removed it,
\* returns NoSpiPeripheral, performs no bus activity and leaves the caller's
\* buffer and the snapshot as they were.
C12_CaptureWithoutSpi ==
    [][(~spi /\ op' \in CaptureOps) =>
          /\ result' = "NoSpiPeripheral"
          /\ ret' = <<>>
          /\ trace' = <<>>
          /\ configuration' = configuration
          /\ buffer' = (IF op' = "read_image"
                        THEN [len |-> arg', content |-> "caller"]
                        ELSE NoBuffer)]_vars

\* read_image with a non-empty buffer on a device without the SPI handle
C12_Witness ==
    /\ op = "read_image"
    /\ ~spi
    /\ arg > 0
    /\ result = "NoSpiPeripheral"
    /\ buffer = [len |-> arg, content |-> "caller"]

I2cOps ==
    {"init", "set_image_format", "set_resolution", "set_light_mode",
     "set_saturation", "set_brightness", "set_contrast", "set_special_effect"}

\* C13 as stated: init, set_image_format, set_resolution and the five tone and
\* effect setters, called while the I2C handle is absent (never given, or
\* removed by take_i2c), fail with NoI2cPeripheral, invoke no delay and leave
\* the snapshot unchanged.
C13_AlwaysNoI2cPeripheral ==
    [][(~i2c /\ op' \in I2cOps) =>
          /\ result' = "NoI2cPeripheral"
          /\ Delays(trace') = <<>>
          /\ configuration' = configuration]_vars

\* C13 amended: the same methods called while the I2C handle is absent fail
\* with NoI2cPeripheral, except set_resolution on a device whose stored format
\* is not JPEG, which fails with CannotSetImageSizeOnNonJPEG; in every case
\* there is no bus activity and no delay, and the snapshot is unchanged.
C13_FailsWithoutI2c ==
    [][(~i2c /\ op' \in I2cOps) =>
          /\ result' = (IF op' = "set_resolution"
                           /\ configuration.image_format # "JPEG"
                        THEN "CannotSetImageSizeOnNonJPEG"
                        ELSE "NoI2cPeripheral")
          /\ trace' = <<>>
          /\ configuration' = configuration]_vars

\* set_saturation fails on a device that was initialised and then gave its I2C
\* handle away
C13_Witness ==
    /\ op = "set_saturation"
    /\ initialized
    /\ ~i2c
    /\ result = "NoI2cPeripheral"
    /\ configuration = pre

\* C14: withdrawal is one-way.  take_spi (take_i2c) on a device holding the
\* handle returns it and leaves the slot absent; on a device not holding it the
\* call returns nothing; and no call of any method makes an absent handle
\* present again.
C14_WithdrawalOneWay ==
    [][/\ op' = "take_spi" => (ret' = (IF spi THEN <<"SPI">> ELSE <<>>) /\ ~spi')
       /\ op' = "take_i2c" => (ret' = (IF i2c THEN <<"I2C">> ELSE <<>>) /\ ~i2c')
       /\ ~spi => ~spi'
       /\ ~i2c => ~i2c']_vars

\* a take_i2c that returns nothing on a device that was initialised: its handle
\* was present at init() and an earlier take_i2c removed it
C14_Witness ==
    /\ op = "take_i2c"
    /\ initialized
    /\ ret = <<>>
    /\ ~i2c

----------------------------------------------------------------------------
(* Properties of the builder (SpecBuilder) *)

\* the documented defaults
DocumentedDefaults ==
    [image_format |-> "JPEG", resolution |-> "R1024x768", light_mode |-> "Auto",
     saturation |-> "Saturation0", brightness |-> "Brightness0",
     contrast |-> "Contrast0", special_effect |-> "Normal"]

\* C15: whatever subset of the seven fields has been set, build() succeeds and
\* returns a Configuration in which each set field has the value given last and
\* each unset field its documented default, every field resolved on its own;
\* build() leaves the builder as it was, so that calling it again returns an
\* equal Configuration.
C15_BuildResolvesEachField ==
    [][op' = "build" =>
          /\ result' = Ok
          /\ builder' = builder
          /\ DOMAIN ret'[1] = DOMAIN DocumentedDefaults
          /\ \A f \in DOMAIN DocumentedDefaults :
                ret'[1][f] = (IF builder[f] = None THEN DocumentedDefaults[f]
                              ELSE builder[f])]_vars

\* build() with the format set to QVGA, the contrast set and the resolution unset
C15_Witness ==
    /\ op = "build"
    /\ builder.image_format = "QVGA"
    /\ builder.resolution = None
    /\ builder.contrast = "Contrast4"
    /\ builder.special_effect = None
    /\ ret[1].image_format = "QVGA"
    /\ ret[1].resolution = "R1024x768"
    /\ ret[1].contrast = "Contrast4"
    /\ ret[1].special_effect = "Normal"

----------------------------------------------------------------------------
(* Properties of the connection checks and of capture start (SpecDevice) *)

IsSpiEvent(e) == e.ev \in {"spi_write", "spi_transfer"}

IsI2cEvent(e) == e.ev \in {"i2c_write", "i2c_write_read"}

\* C16: i2c_connected() makes its test only through the I2C handle and fails
\* with NoI2cPeripheral exactly when the I2C handle is absent; spi_connected()
\* makes its check only through the SPI handle and fails with NoSpiPeripheral
\* exactly when the SPI handle is absent.
C16_ChecksUseTheirOwnChannel ==
    /\ op = "i2c_connected" =>
           /\ \A k \in DOMAIN trace : ~IsSpiEvent(trace[k])
           /\ (result = "NoI2cPeripheral") <=> ~i2c
    /\ op = "spi_connected" =>
           /\ \A k \in DOMAIN trace : ~IsI2cEvent(trace[k])
           /\ (result = "NoSpiPeripheral") <=> ~spi

\* the writes of the clear marker and of the start marker to the FIFO register
ClearWrite == Event("spi_write", <<WriteBit(FIFO), FIFO_CLEAR_MASK>>)

StartWrite == Event("spi_write", <<WriteBit(FIFO), FIFO_START_MASK>>)

\* C17: with the SPI handle present, start_capture() issues two writes to the
\* FIFO register, the clear marker then the start marker, and nothing else; if
\* the clear write fails the start write is not issued.  flush_fifo() issues
\* one write of the clear marker to the same register, whatever was called
\* before it.
C17_CaptureStartWrites ==
    /\ (op = "start_capture" /\ spi) =>
           /\ env.fspi = 0 => (trace = <<ClearWrite, StartWrite>> /\ result = Ok)
           /\ env.fspi = 1 => (trace = <<ClearWrite>> /\ result = "SpiError")
           /\ env.fspi = 2 =>
                  (trace = <<ClearWrite, StartWrite>> /\ result = "SpiError")
    /\ (op = "flush_fifo" /\ spi) =>
           /\ trace = <<ClearWrite>>
           /\ result = (IF env.fspi = 1 THEN "SpiError" ELSE Ok)

\* start_capture() whose clear write fails, on a device that was initialised
C17_Witness ==
    /\ op = "start_capture"
    /\ initialized
    /\ spi
    /\ env.fspi = 1
    /\ result = "SpiError"
    /\ trace = <<ClearWrite>>

\* C18: a start_capture() that writes the start marker to the device happens
\* only on a device on which some init() has returned Ok before.
C18_StartOnlyAfterInit ==
    (op = "start_capture" /\ result = Ok /\ trace = <<ClearWrite, StartWrite>>) =>
        initialized

----------------------------------------------------------------------------
(* Properties of the delay and of the tone setters (SpecConfig) *)

ToneOps ==
    {"set_light_mode", "set_saturation", "set_brightness", "set_contrast",
     "set_special_effect"}

\* C19: set_resolution, the five tone and effect setters, the capture methods
\* and the two takes never invoke the delay; one init() or set_configuration()
\* invokes it at most once, exactly once when the two writes that precede it
\* succeed, and always for 100 ms.
C19_DelayOnlyInFormatSwitch ==
    /\ op \in {"set_resolution", "take_spi", "take_i2c"} \cup ToneOps \cup CaptureOps
           => Delays(trace) = <<>>
    /\ op \in {"init", "set_configuration"} =>
           /\ Len(Delays(trace)) <= 1
           /\ \A k \in DOMAIN Delays(trace) : Delays(trace)[k].data = <<100>>
           /\ (i2c /\ env.fi2c \notin {1, 2}) => Len(Delays(trace)) = 1

\* set_configuration() that made the delay and then failed at a later write
C19_Witness ==
    /\ op = "set_configuration"
    /\ result = "I2CError"
    /\ env.fi2c = 3
    /\ Delays(trace) = <<Event("delay_ms", <<100>>)>>
    /\ trace[3] = Event("delay_ms", <<100>>)

\* the snapshot field each tone setter owns
ToneField(o) ==
    CASE o = "set_light_mode"     -> "light_mode"
      [] o = "set_saturation"     -> "saturation"
      [] o = "set_brightness"     -> "brightness"
      [] o = "set_contrast"       -> "contrast"
      [] o = "set_special_effect" -> "special_effect"

\* the writes of a tone setter as a function of its argument alone
ToneWrites(o, a) ==
    CASE o = "set_light_mode"     -> LightModeWrites(a)
      [] o = "set_saturation"     -> SaturationWrites(a)
      [] o = "set_brightness"     -> BrightnessWrites(a)
      [] o = "set_contrast"       -> ContrastWrites(a)
      [] o = "set_special_effect" -> SpecialEffectWrites(a)

\* C20: each tone or effect setter writes the bank select 0xFF := 0x00 first,
\* then a sequence fixed by its argument alone, whatever the snapshot holds; it
\* stops at a failing write; on success it changes its own field of the
\* snapshot to the argument and no other field, on failure it changes none.
C20_ToneSetterFrame ==
    op \in ToneOps =>
        LET w == I2cWrites(trace)
            expected == ToneWrites(op, arg)
        IN  /\ Len(w) = Len(trace)
            /\ IsPrefix(w, expected)
            /\ expected[1] = <<255, 0>>
            /\ (i2c /\ env.fi2c = 0) => (result = Ok /\ w = expected)
            /\ (i2c /\ env.fi2c > 0) => (result = "I2CError" /\ Len(w) = env.fi2c)
            /\ ~i2c => (result = "NoI2cPeripheral" /\ w = <<>>)
            /\ result = Ok => configuration = [pre EXCEPT ![ToneField(op)] = arg]
            /\ result # Ok => configuration = pre

\* set_contrast(Contrast4) succeeds on a device that already stores Contrast4
\* together with non-default values in the other fields
C20_Witness ==
    /\ op = "set_contrast"
    /\ arg = "Contrast4"
    /\ pre.contrast = "Contrast4"
    /\ pre.saturation = "Saturation2"
    /\ result = Ok
    /\ Len(trace) = 8
    /\ configuration = pre

----------------------------------------------------------------------------
(* Initialisation of a non-JPEG device, and independence of the channels   *)
(* (SpecConfig)                                                            *)

\* C21: init() on a device whose stored format is not JPEG, and
\* set_configuration() with a non-JPEG configuration, with both handles present
\* and no failing write, never return Ok: they write the bank select, the
\* reset and the non-JPEG mode table, then return CannotSetImageSizeOnNonJPEG
\* from the resolution step; no light-mode, saturation, brightness, contrast or
\* special-effect register is written.
C21_NonJpegInitFails ==
    LET nonJpeg == \/ op = "init" /\ pre.image_format # "JPEG"
                   \/ op = "set_configuration" /\ arg.image_format # "JPEG"
    IN  (nonJpeg /\ i2c /\ spi /\ env.fi2c = 0) =>
            /\ result = "CannotSetImageSizeOnNonJPEG"
            /\ I2cWrites(trace) =
                   <<<<255, 1>>, <<18, 128>>>> \o Table("QVGA_REGISTERS")
            /\ configuration.image_format = "QVGA"

\* set_configuration() with a QVGA configuration on a device that stored JPEG
C21_Witness ==
    /\ op = "set_configuration"
    /\ arg.image_format = "QVGA"
    /\ pre.image_format = "JPEG"
    /\ i2c
    /\ spi
    /\ env.fi2c = 0
    /\ result = "CannotSetImageSizeOnNonJPEG"
    /\ Len(I2cWrites(trace)) = 2 + TableLen

\* C22: the capture methods make no I2C transaction and leave the snapshot
\* and both handle slots as they were; init and the configuration setters make
\* no SPI transaction and leave both handle slots as they were; take_spi
\* changes the SPI slot only and take_i2c the I2C slot only: the other slot and
\* the snapshot stay as they were, and no bus transaction is made.
C22_ChannelsIndependent ==
    [][/\ op' \in CaptureOps =>
              /\ \A k \in DOMAIN trace' : ~IsI2cEvent(trace'[k])
              /\ configuration' = configuration
              /\ i2c' = i2c
              /\ spi' = spi
       /\ op' \in I2cOps =>
              /\ \A k \in DOMAIN trace' : ~IsSpiEvent(trace'[k])
              /\ i2c' = i2c
              /\ spi' = spi
       /\ op' = "take_spi" =>
              (i2c' = i2c /\ configuration' = configuration /\ trace' = <<>>)
       /\ op' = "take_i2c" =>
              (spi' = spi /\ configuration' = configuration /\ trace' = <<>>)]_vars

\* take_spi hands out the SPI handle of a device that holds both handles and a
\* non-default snapshot
C22_Witness ==
    /\ op = "take_spi"
    /\ ret = <<"SPI">>
    /\ ~spi
    /\ i2c
    /\ configuration.light_mode = "Sunny"
    /\ configuration = pre

====
